---- MODULE Spec2Model ----
(***************************************************************************)
(* A model of airenamer (src/airenamer.py): the screenshot classifier, the *)
(* timestamp extractor, the AI-description sanitizer, the name generator   *)
(* and the rename loop of main.  File names are sequences of one-character *)
(* strings, so that regular-expression matching, formatting, Path.stem and *)
(* Path.suffix are computed character by character as the code does.       *)
(***************************************************************************)
EXTENDS Integers, Sequences, FiniteSets, TLC

VARIABLES
    \* --- extract_datetime_from_screenshot exercised on its own
    filename,      \* the filename handed to the extractor (<<>>: none yet)
    instant,       \* the calendar instant the filename was formatted from (or None)
    embedded,      \* the fields as written into the filename
    extracted,     \* what the extractor returned (or NotCalled)
    \* --- the sanitizer of analyze_image_with_openai exercised on its own
    raw,           \* response.choices[0].message.content (None: no answer yet)
    description,   \* what the clean-up returned (or NotCalled)
    \* --- generate_new_name exercised on its own
    gen_call,      \* the arguments and the environment of one call
    gen_ret,       \* its return value (or NotCalled)
    \* --- main
    fs,            \* the directory: file name |-> identity of the file stored there
    fs0,           \* the directory when the command line was first run
    args,          \* the parsed command line
    world,         \* the collaborator's environment and the clock reading
    pc,            \* where main is
    exit_code,     \* None while running, then the process's exit code
    files_to_process,
    idx,           \* the loop's position in files_to_process
    gen_name,      \* what generate_new_name returned for the current file
    new_name,      \* the name main holds for the current file
    counter,       \* the probing loop's counter
    success_count,
    dest,          \* per file processed by this run: what the executor was given and did
    plan,          \* dest of the dry run that preceded this run (<<>>: none)
    run            \* 1, and 2 when the command is run again without --dry-run

extractVars == <<filename, instant, embedded, extracted>>
sanitizeVars == <<raw, description>>
genVars == <<gen_call, gen_ret>>
mainVars == <<fs, fs0, args, world, pc, exit_code, files_to_process, idx, gen_name,
              new_name, counter, success_count, dest, plan, run>>
vars == <<extractVars, sanitizeVars, genVars, mainVars>>

\* ------------------------------------------------------------ characters

Digits == <<"0", "1", "2", "3", "4", "5", "6", "7", "8", "9">>
UpperCase == <<"A", "B", "C", "D", "E", "F", "G", "H", "I", "J", "K", "L", "M",
               "N", "O", "P", "Q", "R", "S", "T", "U", "V", "W", "X", "Y", "Z">>
LowerCase == <<"a", "b", "c", "d", "e", "f", "g", "h", "i", "j", "k", "l", "m",
               "n", "o", "p", "q", "r", "s", "t", "u", "v", "w", "x", "y", "z">>

Range(s) == {s[i] : i \in 1..Len(s)}

\* \d
IsDigit(c) == c \in Range(Digits)
DigitVal(c) == CHOOSE n \in 0..9 : Digits[n + 1] = c
IsUpper(c) == c \in Range(UpperCase)
IsLower(c) == c \in Range(LowerCase)
\* \w
IsWord(c) == IsDigit(c) \/ IsUpper(c) \/ IsLower(c) \/ c = "_"
\* \s
IsSpace(c) == c \in {" ", "\t"}

\* str.lower() on one character
LowerChar(c) ==
    IF IsUpper(c) THEN LowerCase[CHOOSE i \in 1..26 : UpperCase[i] = c] ELSE c
UpperChar(c) ==
    IF IsLower(c) THEN UpperCase[CHOOSE i \in 1..26 : LowerCase[i] = c] ELSE c
lower(s) == [i \in 1..Len(s) |-> LowerChar(s[i])]
upper(s) == [i \in 1..Len(s) |-> UpperChar(s[i])]

\* Optional values (Python's None)
None == [some |-> FALSE]
Some(v) == [some |-> TRUE, val |-> v]
NotCalled == [some |-> FALSE, pending |-> TRUE]

\* the parts of the state a specification does not use
ExtractIdle ==
    filename = <<>> /\ instant = None /\ embedded = None /\ extracted = NotCalled
SanitizeIdle == raw = None /\ description = NotCalled
GenIdle == gen_call = None /\ gen_ret = NotCalled
MainIdle ==
    /\ fs = <<>> /\ fs0 = <<>> /\ args = None /\ world = None /\ pc = "idle"
    /\ exit_code = None /\ files_to_process = <<>> /\ idx = 0 /\ gen_name = <<>>
    /\ new_name = <<>> /\ counter = 0 /\ success_count = 0 /\ dest = <<>>
    /\ plan = <<>> /\ run = 0

\* ------------------------------------------------------------ matching

\* literal text at position i, under re.IGNORECASE
LitCI(s, i, lit) ==
    /\ i >= 1
    /\ i + Len(lit) - 1 <= Len(s)
    /\ \A k \in 1..Len(lit) : LowerChar(s[i + k - 1]) = LowerChar(lit[k])

\* n digits at position i (\d{n})
DigitsAt(s, i, n) ==
    /\ i + n - 1 <= Len(s)
    /\ \A k \in 0..(n - 1) : IsDigit(s[i + k])

RECURSIVE Num(_, _, _)
\* int() of the n digits at position i
Num(s, i, n) ==
    IF n = 0 THEN 0 ELSE Num(s, i, n - 1) * 10 + DigitVal(s[i + n - 1])

RECURSIVE SkipSpace(_, _)
\* the position after the longest run of \s starting at i
SkipSpace(s, i) ==
    IF i <= Len(s) /\ IsSpace(s[i]) THEN SkipSpace(s, i + 1) ELSE i

RECURSIVE SkipWord(_, _)
\* the position after the longest run of \w starting at i
SkipWord(s, i) ==
    IF i <= Len(s) /\ IsWord(s[i]) THEN SkipWord(s, i + 1) ELSE i

CharAt(s, i, c) == i <= Len(s) /\ s[i] = c

\* The tail of the extractor's pattern, anchored at p:
\*   (\d{4})-(\d{2})-(\d{2})\s+at\s+(\d{1,2})\.(\d{2})\.(\d{2})\s+(AM|PM)
\* matched left to right; the groups, or None.
\* the hour's length: \d{1,2} is greedy, and the one-digit alternative is
\* taken only when the second character is not a digit, so the first
\* alternative that reaches the dot is the match (0: neither does)
HourLen(s, b) ==
    IF DigitsAt(s, b, 2) /\ CharAt(s, b + 2, ".") THEN 2
    ELSE IF DigitsAt(s, b, 1) /\ CharAt(s, b + 1, ".") THEN 1
    ELSE 0

\* \s+(AM|PM) after the seconds, which end before position c; e ends the blanks
StampAmPm(s, p, b, hl, c, e) ==
    IF ~ (e > c /\ (LitCI(s, e, <<"A", "M">>) \/ LitCI(s, e, <<"P", "M">>)))
    THEN None
    ELSE Some([g1 |-> Num(s, p, 4), g2 |-> Num(s, p + 5, 2),
               g3 |-> Num(s, p + 8, 2), g4 |-> Num(s, b, hl),
               g5 |-> Num(s, b + hl + 1, 2), g6 |-> Num(s, b + hl + 4, 2),
               g7 |-> SubSeq(s, e, e + 1)])

\* (\d{1,2})\.(\d{2})\.(\d{2}) at position b, the hour hl digits long
StampClock(s, p, b, hl) ==
    IF hl = 0 THEN None
    ELSE IF ~ ( /\ DigitsAt(s, b + hl + 1, 2) /\ CharAt(s, b + hl + 3, ".")
                /\ DigitsAt(s, b + hl + 4, 2) )
    THEN None
    ELSE StampAmPm(s, p, b, hl, b + hl + 6, SkipSpace(s, b + hl + 6))

\* \s+ after "at", which ends before position a; b ends the blanks
StampHour(s, p, a, b) ==
    IF ~ (b > a) THEN None ELSE StampClock(s, p, b, HourLen(s, b))

\* \s+at after the date; a ends the blanks
StampAt(s, p, a) ==
    IF ~ (a > p + 10 /\ LitCI(s, a, <<"a", "t">>)) THEN None
    ELSE StampHour(s, p, a + 2, SkipSpace(s, a + 2))

MatchStamp(s, p) ==
    IF ~ ( /\ DigitsAt(s, p, 4) /\ CharAt(s, p + 4, "-")
           /\ DigitsAt(s, p + 5, 2) /\ CharAt(s, p + 7, "-")
           /\ DigitsAt(s, p + 8, 2) )
    THEN None
    ELSE StampAt(s, p, SkipSpace(s, p + 10))

Screenshot == <<"S", "c", "r", "e", "e", "n", "s", "h", "o", "t">>
CleanShot == <<"C", "l", "e", "a", "n", "S", "h", "o", "t">>
ScreenShot == <<"S", "c", "r", "e", "e", "n", " ", "S", "h", "o", "t">>

\* The extractor's whole pattern anchored at i:
\*   (?:Screenshot|CleanShot)(?:\s+\w+)?\s+ <stamp>
\* The optional group is tried first, then skipped (the regex's priority).
\* \s and \w are disjoint, so each run is matched at its full length.
\* the position after (?:Screenshot|CleanShot) at i, or 0
ToolEnd(s, i) ==
    IF LitCI(s, i, Screenshot) THEN i + Len(Screenshot)
    ELSE IF LitCI(s, i, CleanShot) THEN i + Len(CleanShot)
    ELSE 0

\* (?:\s+\w+)\s+ <stamp>, the word starting at k and ending before w
MatchWithWord(s, k, w, v) ==
    IF w > k /\ v > w THEN MatchStamp(s, v) ELSE None

\* the alternative with the optional group, else the one without it
MatchAfterSpace(s, k, withWord) ==
    IF withWord.some THEN withWord ELSE MatchStamp(s, k)

\* the tool name ended before j; k ends the blanks after it
MatchAfterTool(s, j, k) ==
    IF j = 0 \/ ~ (k > j) THEN None
    ELSE MatchAfterSpace(s, k,
            MatchWithWord(s, k, SkipWord(s, k), SkipSpace(s, SkipWord(s, k))))

MatchAt(s, i) == MatchAfterTool(s, ToolEnd(s, i), SkipSpace(s, ToolEnd(s, i)))

Least(S) == CHOOSE i \in S : \A h \in S : i <= h

\* the match at the leftmost of the positions where the pattern matches
LeftmostMatch(s, hits) ==
    IF hits = {} THEN None ELSE MatchAt(s, Least(hits))

\* re.search(pattern, filename, re.IGNORECASE)
Search(s) == LeftmostMatch(s, {i \in 1..Len(s) : MatchAt(s, i).some})

\* ------------------------------------------------------------ datetime

IsLeap(y) == y % 4 = 0 /\ (y % 100 # 0 \/ y % 400 = 0)

DaysInMonth(y, m) ==
    IF m = 2 THEN (IF IsLeap(y) THEN 29 ELSE 28)
    ELSE IF m \in {4, 6, 9, 11} THEN 30
    ELSE 31

\* datetime(year, month, day, hour, minute, second) raises ValueError
\* exactly when this is false
ValidDateTime(y, mo, d, h, mi, sec) ==
    /\ y \in 1..9999
    /\ mo \in 1..12
    /\ d \in 1..DaysInMonth(y, mo)
    /\ h \in 0..23
    /\ mi \in 0..59
    /\ sec \in 0..59

DateTime(y, mo, d, h, mi, sec) ==
    [year |-> y, month |-> mo, day |-> d, hour |-> h, minute |-> mi, second |-> sec]

\* a conversion that forgets the two special cases of hour 12
To24_NoTwelve(hour, am_pm) ==
    IF am_pm = <<"P", "M">> THEN hour + 12 ELSE hour

\* Convert to 24-hour format
To24(hour, am_pm) ==
    IF am_pm = <<"P", "M">> /\ hour # 12 THEN hour + 12
    ELSE IF am_pm = <<"A", "M">> /\ hour = 12 THEN 0
    ELSE hour

\* datetime(...) of the groups g with the converted hour, None on ValueError
MakeDateTime(g, hour) ==
    IF ValidDateTime(g.g1, g.g2, g.g3, hour, g.g5, g.g6)
    THEN Some(DateTime(g.g1, g.g2, g.g3, hour, g.g5, g.g6))
    ELSE None

\* the body of "if match:"
FromMatch(match) ==
    IF ~ match.some THEN None
    ELSE MakeDateTime(match.val, To24(match.val.g4, upper(match.val.g7)))

extract_datetime_from_screenshot(name) == FromMatch(Search(name))

\* ------------------------------------------------------------ formatting

DigitChar(n) == Digits[n + 1]
Pad2(n) == <<DigitChar((n \div 10) % 10), DigitChar(n % 10)>>
Pad4(n) == Pad2(n \div 100) \o Pad2(n % 100)
\* a number of at most two digits without padding
Unpadded(n) == IF n < 10 THEN <<DigitChar(n)>> ELSE Pad2(n)

Spaces(n) == [i \in 1..n |-> " "]

\* A filename of the shape the patterns describe,
\*   <tool><sp>YYYY-MM-DD<sp>at<sp>H.MM.SS<sp>AM|PM<ext>
\* from the fields f as they are to be written and sp separating blanks.
ScreenshotName(tool, sp, f, ext) ==
    tool \o Spaces(sp) \o Pad4(f.year) \o <<"-">> \o Pad2(f.month) \o <<"-">>
    \o Pad2(f.day) \o Spaces(sp) \o <<"a", "t">> \o Spaces(sp)
    \o f.hour \o <<".">> \o Pad2(f.minute) \o <<".">> \o Pad2(f.second)
    \o Spaces(sp) \o f.am_pm \o ext

\* The fields macOS writes for an instant: the 12-hour clock, the hour unpadded
ClockFields(t) ==
    [year |-> t.year, month |-> t.month, day |-> t.day,
     hour |-> Unpadded(IF t.hour % 12 = 0 THEN 12 ELSE t.hour % 12),
     minute |-> t.minute, second |-> t.second,
     am_pm |-> IF t.hour < 12 THEN <<"A", "M">> ELSE <<"P", "M">>]

PNG == <<".", "p", "n", "g">>

\* "Screenshot YYYY-MM-DD at H.MM.SS AM|PM.png"
FormatScreenshot(t) == ScreenshotName(Screenshot, 1, ClockFields(t), PNG)

\* ------------------------------------------------------------ the extractor on its own

\* the widest run of blanks between the tokens of a forged filename
MaxSpaces == 2

SampleYears == {1, 2023, 2024, 9999}
SampleDays == {1, 28, 29, 30, 31}
SampleClock == {<<0, 0>>, <<45, 10>>, <<59, 59>>}
Instants ==
    {DateTime(y, mo, d, h, c[1], c[2]) :
        y \in SampleYears, mo \in 1..12, d \in SampleDays, h \in 0..23,
        c \in SampleClock}
ValidInstants ==
    {t \in Instants :
        ValidDateTime(t.year, t.month, t.day, t.hour, t.minute, t.second)}

\* Fields of otherwise well-formed filenames, valid or not
ForgedYears == {0, 2024}
ForgedMonths == {2, 12, 13}
ForgedDays == {0, 29, 30, 32}
ForgedHours ==
    {Unpadded(h) : h \in {0, 1, 9, 11, 12, 13, 23, 24, 99}} \cup {Pad2(h) : h \in {0, 9}}
ForgedClock == {<<0, 0>>, <<59, 59>>, <<60, 0>>, <<0, 60>>}
ForgedAmPm == {<<"A", "M">>, <<"P", "M">>, <<"p", "m">>}
ForgedTools == {Screenshot, CleanShot, CleanShot \o <<" ", "X">>, ScreenShot}

InitExtract == ExtractIdle /\ SanitizeIdle /\ GenIdle /\ MainIdle

\* a valid instant is written into a filename the way macOS writes it
FormatInstant ==
    /\ filename = <<>>
    /\ \E t \in ValidInstants :
        /\ filename' = FormatScreenshot(t)
        /\ instant' = Some(t)
        /\ embedded' = Some(ClockFields(t))
    /\ UNCHANGED <<extracted, sanitizeVars, genVars, mainVars>>

\* a well-formed filename is written from arbitrary field values
ForgeName ==
    /\ filename = <<>>
    /\ \E y \in ForgedYears, mo \in ForgedMonths, d \in ForgedDays,
          h \in ForgedHours, c \in ForgedClock, ap \in ForgedAmPm,
          tool \in ForgedTools, sp \in 1..MaxSpaces :
        LET f == [year |-> y, month |-> mo, day |-> d, hour |-> h,
                  minute |-> c[1], second |-> c[2], am_pm |-> ap]
        IN /\ filename' = ScreenshotName(tool, sp, f, PNG)
           /\ embedded' = Some(f)
    /\ instant' = None
    /\ UNCHANGED <<extracted, sanitizeVars, genVars, mainVars>>

Extract ==
    /\ filename # <<>>
    /\ extracted = NotCalled
    /\ extracted' = extract_datetime_from_screenshot(filename)
    /\ UNCHANGED <<filename, instant, embedded, sanitizeVars, genVars, mainVars>>

NextExtract == FormatInstant \/ ForgeName \/ Extract

SpecExtract == InitExtract /\ [][NextExtract]_vars

\* ------------------------------------------------------------ analyze_image_with_openai

RECURSIVE LStrip(_, _)
\* s without its leading characters of the set cs
LStrip(s, cs) ==
    IF s # <<>> /\ Head(s) \in cs THEN LStrip(Tail(s), cs) ELSE s

RECURSIVE RStrip(_, _)
RStrip(s, cs) ==
    IF s # <<>> /\ s[Len(s)] \in cs THEN RStrip(SubSeq(s, 1, Len(s) - 1), cs) ELSE s

\* str.strip() and str.strip('-')
Strip(s, cs) == RStrip(LStrip(s, cs), cs)

\* the index of the first c in s, or 0 (str.find + 1)
Find(s, c) ==
    IF c \in Range(s) THEN CHOOSE i \in 1..Len(s) : s[i] = c /\ \A k \in 1..(i - 1) : s[k] # c
    ELSE 0

\* the index of the last c in s, or 0 (str.rfind + 1)
RFind(s, c) ==
    IF c \in Range(s) THEN CHOOSE i \in 1..Len(s) : s[i] = c /\ \A k \in (i + 1)..Len(s) : s[k] # c
    ELSE 0

\* description.split('.')[0]
BeforeDot(s) == IF Find(s, ".") = 0 THEN s ELSE SubSeq(s, 1, Find(s, ".") - 1)

\* re.sub(r'[^\w\-]', '-', description)
ReplaceInvalid(s) ==
    [i \in 1..Len(s) |-> IF IsWord(s[i]) \/ s[i] = "-" THEN s[i] ELSE "-"]

RECURSIVE CollapseHyphens(_)
\* re.sub(r'-+', '-', description)
CollapseHyphens(s) ==
    IF Len(s) < 2 THEN s
    ELSE IF s[1] = "-" /\ s[2] = "-" THEN CollapseHyphens(Tail(s))
    ELSE <<s[1]>> \o CollapseHyphens(Tail(s))

\* description[:50]
MaxDescription == 50
Truncate(s) == SubSeq(s, 1, IF Len(s) < MaxDescription THEN Len(s) ELSE MaxDescription)

\* The clean-up of the model's answer: lines 104-121
CleanDescription(content) ==
    LET description1 == Strip(content, {" ", "\t"})
        description2 == BeforeDot(description1)
        description3 == ReplaceInvalid(description2)
        description4 == CollapseHyphens(description3)
        description5 == Strip(description4, {"-"})
        description6 == Truncate(description5)
    IN IF description6 = <<>> THEN None ELSE Some(lower(description6))

\* The collaborator's environment env:
\*   openai: the package imports; api_key: OPENAI_API_KEY is set;
\*   readable: the image file can be read;
\*   response: None when the API call raises, else Some(message content).
analyze_image_with_openai(env) ==
    IF ~ env.openai THEN None
    ELSE IF ~ env.api_key THEN None
    ELSE IF ~ env.readable THEN None
    ELSE IF ~ env.response.some THEN None
    ELSE CleanDescription(env.response.val)

\* ------------------------------------------------------------ generate_new_name

\* Path(name).suffix and Path(name).stem of a name without separators
\* the index of the dot that starts the suffix, or 0
SuffixDot(name, i) == IF 1 < i /\ i < Len(name) THEN i ELSE 0
SplitAt(name) == SuffixDot(name, RFind(name, "."))

PathSuffix(name) ==
    IF SplitAt(name) = 0 THEN <<>> ELSE SubSeq(name, SplitAt(name), Len(name))

PathStem(name) ==
    IF SplitAt(name) = 0 THEN name ELSE SubSeq(name, 1, SplitAt(name) - 1)

\* dt.strftime("%Y-%m-%d_%H-%M-%S"), "%Y%m%d_%H%M%S", "%Y-%m-%d"
StrfDateTime(t) ==
    Pad4(t.year) \o <<"-">> \o Pad2(t.month) \o <<"-">> \o Pad2(t.day) \o <<"_">>
    \o Pad2(t.hour) \o <<"-">> \o Pad2(t.minute) \o <<"-">> \o Pad2(t.second)
StrfTimestamp(t) ==
    Pad4(t.year) \o Pad2(t.month) \o Pad2(t.day) \o <<"_">>
    \o Pad2(t.hour) \o Pad2(t.minute) \o Pad2(t.second)
StrfDate(t) ==
    Pad4(t.year) \o <<"-">> \o Pad2(t.month) \o <<"-">> \o Pad2(t.day)

\* Add prefix and suffix, then the extension
WithPrefix(core, prefix) ==
    IF prefix # <<>> THEN prefix \o <<"_">> \o core ELSE core
WithSuffix(core, suffix) ==
    IF suffix # <<>> THEN core \o <<"_">> \o suffix ELSE core
WithAffixes(core, prefix, suffix, file_ext) ==
    WithSuffix(WithPrefix(core, prefix), suffix) \o file_ext

\* a fallback to the date-only pattern
FallbackPattern_Date == "date"

\* the pattern the AI branch falls back to
FallbackPattern == "datetime"

\* The branches after the AI branch (lines 184-209); dt is what the
\* extractor returned for the old name, now is datetime.now()
PatternName(old_name, pattern, now, dt) ==
    IF pattern = "datetime"
    THEN (IF dt.some THEN StrfDateTime(dt.val) ELSE StrfDateTime(now))
    ELSE IF pattern = "timestamp" THEN StrfTimestamp(now)
    ELSE IF pattern = "date"
    THEN (IF dt.some THEN StrfDate(dt.val) ELSE StrfDate(now))
    ELSE PathStem(old_name)

\* the pattern after the AI branch: the fallback when that branch did not return
PatternAfterAI(pattern) ==
    IF pattern \in {"ai", "content"} THEN FallbackPattern ELSE pattern

\* generate_new_name with file_ext and the collaborator's result ai_name
GenerateWith(old_name, pattern, prefix, suffix, file_path, now, file_ext, ai_name) ==
    IF pattern \in {"ai", "content"} /\ file_path /\ ai_name.some
    THEN WithAffixes(ai_name.val, prefix, suffix, file_ext)
    ELSE WithAffixes(PatternName(old_name, PatternAfterAI(pattern), now,
                                 extract_datetime_from_screenshot(old_name)),
                     prefix, suffix, file_ext)

\* file_path: whether a file path was passed; env: the collaborator's
\* environment; now: the clock reading
generate_new_name(old_name, pattern, prefix, suffix, file_path, env, now) ==
    GenerateWith(old_name, pattern, prefix, suffix, file_path, now,
                 PathSuffix(old_name), analyze_image_with_openai(env))

\* ------------------------------------------------------------ the clean-up on its own

\* the longest text after the filler of a raw answer
MaxTail == 3

Alphabet == {"a", "B", "_", "-", " ", "."}
StringsUpTo(n) == UNION {[1..k -> Alphabet] : k \in 0..n}
Fill(k) == [i \in 1..k |-> "a"]
\* what an answer starts with
Heads == {<<>>, <<" ">>, <<"-">>, <<"B">>}
\* answers short, and around the length limit
FillLengths == {0} \cup (MaxDescription - 4)..MaxDescription
RawTexts ==
    {h \o Fill(k) \o t : h \in Heads, k \in FillLengths, t \in StringsUpTo(MaxTail)}

InitSanitize == SanitizeIdle /\ ExtractIdle /\ GenIdle /\ MainIdle

\* the model answers
Respond ==
    /\ raw = None
    /\ \E content \in RawTexts : raw' = Some(content)
    /\ UNCHANGED <<description, extractVars, genVars, mainVars>>

CleanUp ==
    /\ raw.some
    /\ description = NotCalled
    /\ description' = CleanDescription(raw.val)
    /\ UNCHANGED <<raw, extractVars, genVars, mainVars>>

NextSanitize == Respond \/ CleanUp

SpecSanitize == InitSanitize /\ [][NextSanitize]_vars

\* ------------------------------------------------------------ generate_new_name on its own

GenOldNames ==
    { <<"S", "c", "r", "e", "e", "n", "s", "h", "o", "t", " ", "2", "0", "2", "4", "-", "0", "1", "-", "1", "5", " ", "a", "t", " ", "3", ".", "4", "5", ".", "1", "0", " ", "P", "M", ".", "p", "n", "g">>,
      <<"C", "l", "e", "a", "n", "S", "h", "o", "t", " ", "X", " ", "2", "0", "2", "4", "-", "0", "1", "-", "1", "5", " ", "a", "t", " ", "1", "2", ".", "0", "0", ".", "0", "0", " ", "A", "M", ".", "J", "P", "G">>,
      <<"S", "c", "r", "e", "e", "n", " ", "S", "h", "o", "t", " ", "2", "0", "2", "4", "-", "0", "1", "-", "1", "5", " ", "a", "t", " ", "3", ".", "4", "5", ".", "1", "0", " ", "P", "M", ".", "p", "n", "g">>,
      <<"S", "c", "r", "e", "e", "n", "s", "h", "o", "t", " ", "2", "0", "2", "4", "-", "0", "2", "-", "3", "0", " ", "a", "t", " ", "1", ".", "0", "0", ".", "0", "0", " ", "A", "M", ".", "j", "p", "e", "g">>,
      <<"p", "h", "o", "t", "o", ".", "t", "a", "r", ".", "P", "N", "G">>,
      <<"n", "o", "t", "e", "s">>,
      <<".", "p", "n", "g">> }
GenPatterns == {"datetime", "timestamp", "date", "ai", "content", "keep"}
GenPrefixes == {<<>>, <<"p", "r", "o", "j">>}
GenSuffixes == {<<>>, <<"f", "i", "n", "a", "l">>, <<"v", "1", ".", "2">>}
GenClocks == {DateTime(2025, 3, 9, 7, 5, 0), DateTime(1999, 12, 31, 23, 59, 59)}

Env(openai, api_key, readable, response) ==
    [openai |-> openai, api_key |-> api_key, readable |-> readable, response |-> response]
\* each way the collaborator fails, and answers it gives
GenEnvs ==
    { Env(FALSE, TRUE, TRUE, None),
      Env(TRUE, FALSE, TRUE, None),
      Env(TRUE, TRUE, FALSE, None),
      Env(TRUE, TRUE, TRUE, None),
      Env(TRUE, TRUE, TRUE, Some(<<" ", "-", ".", "-", " ">>)),
      Env(TRUE, TRUE, TRUE, Some(<<"L", "o", "g", "i", "n", " ", "P", "a", "g", "e", " ", "E", "r", "r", "o", "r", ".">>)),
      Env(TRUE, TRUE, TRUE, Some(<<"s", "h", "o", "t">>)) }

InitGen == GenIdle /\ ExtractIdle /\ SanitizeIdle /\ MainIdle

Call ==
    /\ gen_call = None
    /\ \E old_name \in GenOldNames, pattern \in GenPatterns, prefix \in GenPrefixes,
          suffix \in GenSuffixes, file_path \in BOOLEAN, env \in GenEnvs,
          now \in GenClocks :
        gen_call' = Some([old_name |-> old_name, pattern |-> pattern,
                          prefix |-> prefix, suffix |-> suffix,
                          file_path |-> file_path, env |-> env, now |-> now])
    /\ UNCHANGED <<gen_ret, extractVars, sanitizeVars, mainVars>>

Return ==
    /\ gen_call.some
    /\ gen_ret = NotCalled
    /\ LET c == gen_call.val IN
        gen_ret' = Some(generate_new_name(c.old_name, c.pattern, c.prefix, c.suffix,
                                          c.file_path, c.env, c.now))
    /\ UNCHANGED <<gen_call, extractVars, sanitizeVars, mainVars>>

NextGen == Call \/ Return

SpecGen == InitGen /\ [][NextGen]_vars

\* ------------------------------------------------------------ is_screenshot_file

JPG == <<".", "j", "p", "g">>
JPEG == <<".", "j", "p", "e", "g">>

\* str.endswith
EndsWith(s, suf) ==
    Len(s) >= Len(suf) /\ SubSeq(s, Len(s) - Len(suf) + 1, Len(s)) = suf

\* '^<tool> \d{4}-\d{2}-\d{2} at \d{1,2}\.\d{2}\.\d{2} (AM|PM)\.png$' with the
\* date at position p and an hour of hl digits
ExactStamp(s, p, hl) ==
    /\ DigitsAt(s, p, 4) /\ CharAt(s, p + 4, "-")
    /\ DigitsAt(s, p + 5, 2) /\ CharAt(s, p + 7, "-")
    /\ DigitsAt(s, p + 8, 2)
    /\ LitCI(s, p + 10, <<" ", "a", "t", " ">>)
    /\ hl # 0
    /\ DigitsAt(s, p + 15 + hl, 2) /\ CharAt(s, p + 17 + hl, ".")
    /\ DigitsAt(s, p + 18 + hl, 2) /\ CharAt(s, p + 20 + hl, " ")
    /\ (LitCI(s, p + 21 + hl, <<"A", "M">>) \/ LitCI(s, p + 21 + hl, <<"P", "M">>))
    /\ LitCI(s, p + 23 + hl, PNG)
    /\ Len(s) = p + 26 + hl

ExactName(s, tool) ==
    /\ LitCI(s, 1, tool \o <<" ">>)
    /\ ExactStamp(s, Len(tool) + 2, HourLen(s, Len(tool) + 16))

\* '^<tool>.*<ext>$'
LooseName(s, tool, ext) ==
    /\ LitCI(s, 1, tool)
    /\ Len(s) >= Len(tool) + Len(ext)
    /\ LitCI(s, Len(s) - Len(ext) + 1, ext)

\* re.match(pattern, filename, re.IGNORECASE) for one of screenshot_patterns
MatchesAnyPattern(s) ==
    \/ ExactName(s, Screenshot)
    \/ ExactName(s, ScreenShot)
    \/ LooseName(s, CleanShot, PNG)
    \/ LooseName(s, CleanShot, JPG)
    \/ LooseName(s, CleanShot, JPEG)
    \/ LooseName(s, Screenshot, PNG)
    \/ LooseName(s, ScreenShot, PNG)

HasImageExtension(s) == EndsWith(s, PNG) \/ EndsWith(s, JPG) \/ EndsWith(s, JPEG)

is_screenshot_file(name) == HasImageExtension(lower(name)) /\ MatchesAnyPattern(name)

\* ------------------------------------------------------------ find_screenshots

\* the characters in code-point order
CharOrder == <<"\t", " ", "-", ".">> \o Digits \o UpperCase \o <<"_">> \o LowerCase
Rank(c) == CHOOSE i \in 1..Len(CharOrder) : CharOrder[i] = c

RECURSIVE NameLess(_, _)
\* a < b, as sorted() compares the paths of one directory
NameLess(a, b) ==
    IF b = <<>> THEN FALSE
    ELSE IF a = <<>> THEN TRUE
    ELSE IF Head(a) = Head(b) THEN NameLess(Tail(a), Tail(b))
    ELSE Rank(Head(a)) < Rank(Head(b))

First(S) == CHOOSE m \in S : \A x \in S \ {m} : NameLess(m, x)

RECURSIVE Sorted(_)
Sorted(S) == IF S = {} THEN <<>> ELSE <<First(S)>> \o Sorted(S \ {First(S)})

\* directory.glob("*" + ext): the match is case-sensitive
Glob(dir, ext) == {n \in DOMAIN dir : EndsWith(n, ext)}

\* every entry of the directory is a regular file
find_screenshots(dir) ==
    Sorted({n \in Glob(dir, PNG) \cup Glob(dir, JPG) \cup Glob(dir, JPEG) :
                is_screenshot_file(n)})

\* ------------------------------------------------------------ rename_screenshot

\* Path.exists() of a name in the directory
Exists(dir, name) == name \in DOMAIN dir

\* file_path.rename(new_path): the file moves, and replaces what is at new_path
Renamed(dir, src, dst) ==
    [n \in (DOMAIN dir \ {src}) \cup {dst} |-> IF n = dst THEN dir[src] ELSE dir[n]]

\* an executor without the dry-run branch
rename_screenshot_NoDryRun(dir, src, dst, dry_run, os_error) ==
    IF Exists(dir, dst) THEN [fs |-> dir, ok |-> FALSE]
    ELSE IF os_error THEN [fs |-> dir, ok |-> FALSE]
    ELSE [fs |-> Renamed(dir, src, dst), ok |-> TRUE]

\* an executor without the existence check
rename_screenshot_NoCheck(dir, src, dst, dry_run, os_error) ==
    IF dry_run THEN [fs |-> dir, ok |-> TRUE]
    ELSE IF os_error THEN [fs |-> dir, ok |-> FALSE]
    ELSE [fs |-> Renamed(dir, src, dst), ok |-> TRUE]

\* The directory afterwards and the value returned; os_error: rename() raises
rename_screenshot(dir, src, dst, dry_run, os_error) ==
    IF Exists(dir, dst) THEN [fs |-> dir, ok |-> FALSE]
    ELSE IF dry_run THEN [fs |-> dir, ok |-> TRUE]
    ELSE IF os_error THEN [fs |-> dir, ok |-> FALSE]
    ELSE [fs |-> Renamed(dir, src, dst), ok |-> TRUE]

\* ------------------------------------------------------------ main

RECURSIVE Decimal(_)
Decimal(n) == IF n < 10 THEN <<DigitChar(n)>> ELSE Decimal(n \div 10) \o <<DigitChar(n % 10)>>

\* f"{counter:03d}"
Format03d(n) == IF n < 100 THEN <<"0">> \o Pad2(n) ELSE Decimal(n)

\* a loop body that forgets the extension
NumberedName_NoSuffix(name, k) == PathStem(name) \o <<"_">> \o Format03d(k)

\* f"{name_parts[0]}_{counter:03d}{name_parts[1]}" of the name held so far
NumberedName(name, k) ==
    PathStem(name) \o <<"_">> \o Format03d(k) \o PathSuffix(name)

\* a probe of the working directory, which holds none of the names
ProbeExists_WorkingDir(dir, name) == FALSE

\* base_path.exists() with base_path = file_path.parent / new_name
ProbeExists(dir, name) == Exists(dir, name)

\* the most files a directory holds when the command is run
MaxDirSize == 3

\* The names a directory may hold
PoolSeq ==
    << <<"C", "l", "e", "a", "n", "S", "h", "o", "t", " ", "2", "0", "2", "4", "-", "0", "1", "-", "1", "5", " ", "a", "t", " ", "3", ".", "4", "5", ".", "1", "0", " ", "P", "M", ".", "p", "n", "g">>,
       <<"S", "c", "r", "e", "e", "n", "s", "h", "o", "t", " ", "2", "0", "2", "4", "-", "0", "1", "-", "1", "5", " ", "a", "t", " ", "3", ".", "4", "5", ".", "1", "0", " ", "P", "M", ".", "p", "n", "g">>,
       <<"S", "c", "r", "e", "e", "n", "s", "h", "o", "t", " ", "2", "0", "2", "4", "-", "0", "1", "-", "1", "6", " ", "a", "t", " ", "9", ".", "0", "5", ".", "0", "0", " ", "A", "M", ".", "p", "n", "g">>,
       <<"p", "h", "o", "t", "o", ".", "J", "P", "G">>,
       <<"2", "0", "2", "4", "-", "0", "1", "-", "1", "5", "_", "1", "5", "-", "4", "5", "-", "1", "0", ".", "p", "n", "g">>,
       <<"s", "h", "o", "t", ".", "p", "n", "g">>,
       <<"s", "h", "o", "t", "_", "0", "0", "1", ".", "p", "n", "g">>,
       <<"2", "0", "2", "4", "-", "0", "1", "-", "1", "5", "_", "1", "5", "-", "4", "5", "-", "1", "0", ".", "J", "P", "G">>,
       <<"v", ".", "1", "_", "l", "o", "g", "i", "n", "-", "p", "a", "g", "e", "-", "e", "r", "r", "o", "r", "_", "v", "1", ".", "2", ".", "p", "n", "g">> >>
\* the file named on the command line when it names none of the directory
MissingFile == PoolSeq[4]

\* the directory holding the pool's names numbered d, each file its own identity
DirOf(d) == [n \in {PoolSeq[i] : i \in d} |-> CHOOSE i \in d : PoolSeq[i] = n]
Directories ==
    {DirOf(d) : d \in {e \in SUBSET (1..Len(PoolSeq)) : Cardinality(e) <= MaxDirSize}}

ClockA == DateTime(2024, 1, 15, 15, 45, 10)
ClockB == DateTime(2025, 3, 9, 7, 5, 0)

Invocation(pattern, prefix, suffix, env, now) ==
    [pattern |-> pattern, prefix |-> prefix, suffix |-> suffix, env |-> env, now |-> now]
\* pattern, prefix, suffix, the collaborator's environment and the clock
Invocations ==
    { Invocation("datetime", <<>>, <<>>, Env(FALSE, FALSE, TRUE, None), ClockA),
      Invocation("date", <<"p", "r", "o", "j">>, <<"f", "i", "n", "a", "l">>, Env(FALSE, FALSE, TRUE, None), ClockB),
      Invocation("timestamp", <<>>, <<>>, Env(FALSE, FALSE, TRUE, None), ClockB),
      Invocation("ai", <<>>, <<>>, Env(TRUE, TRUE, TRUE, Some(<<"s", "h", "o", "t">>)), ClockA),
      Invocation("ai", <<>>, <<>>, Env(TRUE, FALSE, TRUE, None), ClockA),
      Invocation("content", <<"v", ".", "1">>, <<"v", "1", ".", "2">>, Env(TRUE, TRUE, TRUE, Some(<<"L", "o", "g", "i", "n", " ", "P", "a", "g", "e", " ", "E", "r", "r", "o", "r", ".">>)), ClockB) }

InitMain ==
    /\ ExtractIdle /\ SanitizeIdle /\ GenIdle
    /\ fs0 \in Directories
    /\ fs = fs0
    /\ \E i \in Invocations, force \in BOOLEAN, dry_run \in BOOLEAN,
          file \in {None} \cup {Some(n) : n \in DOMAIN fs0 \cup {MissingFile}} :
        /\ args = [file |-> file, folder |-> ~ file.some, pattern |-> i.pattern,
                   prefix |-> i.prefix, suffix |-> i.suffix, dry_run |-> dry_run,
                   force |-> force]
        /\ world = [env |-> i.env, now |-> i.now]
    /\ pc = "start"
    /\ exit_code = None
    /\ files_to_process = <<>>
    /\ idx = 0
    /\ gen_name = <<>>
    /\ new_name = <<>>
    /\ counter = 0
    /\ success_count = 0
    /\ dest = <<>>
    /\ plan = <<>>
    /\ run = 1

\* sys.exit(code) before the loop
Exit(code) ==
    /\ pc' = "done"
    /\ exit_code' = Some(code)
    /\ UNCHANGED <<files_to_process, idx>>

\* the loop starts on the files found
Process(files) ==
    /\ pc' = "generate"
    /\ files_to_process' = files
    /\ idx' = 1
    /\ UNCHANGED exit_code

\* lines 344-364: --folder
StartFolder ==
    /\ pc = "start"
    /\ args.folder
    /\ IF find_screenshots(fs) = <<>> THEN Exit(0) ELSE Process(find_screenshots(fs))
    /\ UNCHANGED <<fs, fs0, args, world, gen_name, new_name, counter, success_count,
                   dest, plan, run, extractVars, sanitizeVars, genVars>>

\* lines 365-387: a single file; response is what input() returns
StartFile ==
    /\ pc = "start"
    /\ ~ args.folder
    /\ IF ~ Exists(fs, args.file.val) THEN Exit(1)
       ELSE IF ~ is_screenshot_file(args.file.val) /\ ~ args.dry_run
       THEN \E response \in {"y", "Y", "n"} :
                IF LowerChar(response) # "y" THEN Exit(0)
                ELSE Process(<<args.file.val>>)
       ELSE Process(<<args.file.val>>)
    /\ UNCHANGED <<fs, fs0, args, world, gen_name, new_name, counter, success_count,
                   dest, plan, run, extractVars, sanitizeVars, genVars>>

\* lines 392-404: the name is generated
Generate ==
    /\ pc = "generate"
    /\ new_name' = generate_new_name(files_to_process[idx], args.pattern, args.prefix,
                                     args.suffix, args.pattern \in {"ai", "content"},
                                     world.env, world.now)
    /\ gen_name' = new_name'
    /\ counter' = 1
    /\ pc' = IF args.force THEN "probe" ELSE "rename"
    /\ UNCHANGED <<fs, fs0, args, world, exit_code, files_to_process, idx,
                   success_count, dest, plan, run, extractVars, sanitizeVars, genVars>>

\* lines 405-409: the loop's test, and its body when the test holds
Probe ==
    /\ pc = "probe"
    /\ IF ProbeExists(fs, new_name)
       THEN /\ new_name' = NumberedName(new_name, counter)
            /\ counter' = counter + 1
            /\ UNCHANGED pc
       ELSE /\ pc' = "rename"
            /\ UNCHANGED <<new_name, counter>>
    /\ UNCHANGED <<fs, fs0, args, world, exit_code, files_to_process, idx, gen_name,
                   success_count, dest, plan, run, extractVars, sanitizeVars, genVars>>

\* the record of one call of the executor
Outcome(dir, src, dst, r) ==
    [src |-> src, name |-> dst, ok |-> r.ok, existed |-> Exists(dir, dst)]

\* lines 411-413 and the loop's step: the executor is called
Rename ==
    /\ pc = "rename"
    /\ \E os_error \in BOOLEAN :
        LET r == rename_screenshot(fs, files_to_process[idx], new_name, args.dry_run,
                                   os_error)
        IN /\ fs' = r.fs
           /\ success_count' = IF r.ok THEN success_count + 1 ELSE success_count
           /\ dest' = Append(dest, Outcome(fs, files_to_process[idx], new_name, r))
    /\ IF idx < Len(files_to_process)
       THEN idx' = idx + 1 /\ pc' = "generate" /\ UNCHANGED exit_code
       ELSE pc' = "done" /\ exit_code' = Some(0) /\ UNCHANGED idx
    /\ UNCHANGED <<fs0, args, world, files_to_process, gen_name, new_name, counter,
                   plan, run, extractVars, sanitizeVars, genVars>>

\* after a dry run the same command line is run again without --dry-run
Reinvoke ==
    /\ pc = "done"
    /\ run = 1
    /\ args.dry_run
    /\ dest # <<>>
    /\ args' = [args EXCEPT !.dry_run = FALSE]
    /\ run' = 2
    /\ plan' = dest
    /\ dest' = <<>>
    /\ pc' = "start"
    /\ exit_code' = None
    /\ files_to_process' = <<>>
    /\ idx' = 0
    /\ gen_name' = <<>>
    /\ new_name' = <<>>
    /\ counter' = 0
    /\ success_count' = 0
    /\ UNCHANGED <<fs, fs0, world, extractVars, sanitizeVars, genVars>>

Next == StartFolder \/ StartFile \/ Generate \/ Probe \/ Rename \/ Reinvoke

Spec == InitMain /\ [][Next]_vars

\* ------------------------------------------------------------ claims: the extractor

EmbeddedHour == Num(embedded.val.hour, 1, Len(embedded.val.hour))
EmbeddedPM == upper(embedded.val.am_pm) = <<"P", "M">>

\* C5: a valid instant written as "Screenshot YYYY-MM-DD at H.MM.SS AM|PM.png"
\* on the 12-hour clock is extracted as exactly that instant, and the hour is
\* converted 12 AM -> 0, 12 PM -> 12, h PM -> h + 12, h AM -> h (h in 1..11).
C5_RoundTrip ==
    (instant.some /\ extracted # NotCalled) =>
        /\ extracted = Some(instant.val)
        /\ extracted.val.hour =
             IF EmbeddedHour = 12 THEN (IF EmbeddedPM THEN 12 ELSE 0)
             ELSE IF EmbeddedPM THEN EmbeddedHour + 12
             ELSE EmbeddedHour

\* an afternoon instant at 12.xx PM of a leap day has been formatted and extracted
C5_Witness ==
    /\ instant.some
    /\ extracted.some
    /\ instant.val.hour = 12
    /\ instant.val.month = 2
    /\ instant.val.day = 29

\* C6: the extractor returns a timestamp only when the embedded clock hour is
\* in 1..12, minute and second are in 0..59 and year, month and day form a real
\* calendar date; otherwise it returns None.
C6_RejectsInvalid ==
    (embedded.some /\ extracted.some) =>
        /\ EmbeddedHour \in 1..12
        /\ embedded.val.minute \in 0..59
        /\ embedded.val.second \in 0..59
        /\ embedded.val.year \in 1..9999
        /\ embedded.val.month \in 1..12
        /\ embedded.val.day \in 1..DaysInMonth(embedded.val.year, embedded.val.month)

\* ------------------------------------------------------------ claims: the name generator

\* the call's AI branch found no usable description
NoDescription ==
    /\ gen_call.val.pattern \in {"ai", "content"}
    /\ \/ ~ gen_call.val.file_path
       \/ ~ analyze_image_with_openai(gen_call.val.env).some

\* C7: with pattern ai or content and no usable description (package missing,
\* no API key, unreadable file, API failure, empty sanitized text, or no file
\* path), generate_new_name returns a name, and exactly the name it returns
\* for pattern datetime with the same old name, prefix, suffix and clock.
C7_Fallback ==
    (gen_call.some /\ gen_ret.some /\ NoDescription) =>
        /\ Len(gen_ret.val) > 0
        /\ gen_ret.val =
             generate_new_name(gen_call.val.old_name, "datetime", gen_call.val.prefix,
                               gen_call.val.suffix, gen_call.val.file_path,
                               gen_call.val.env, gen_call.val.now)

\* the API answered, the answer sanitized to nothing, and the call returned
C7_Witness ==
    /\ gen_call.some
    /\ gen_ret.some
    /\ gen_call.val.pattern = "ai"
    /\ gen_call.val.file_path
    /\ gen_call.val.env.response.some
    /\ ~ analyze_image_with_openai(gen_call.val.env).some
    /\ gen_call.val.prefix # <<>>

\* ------------------------------------------------------------ claims: the clean-up

\* C10: a returned description is non-empty, at most 50 characters long, has
\* no uppercase letter, no dot, only word characters and hyphens, no two
\* consecutive hyphens, and neither begins nor ends with a hyphen.
C10_Shape ==
    description.some =>
        /\ Len(description.val) \in 1..50
        /\ \A i \in 1..Len(description.val) :
            /\ ~ IsUpper(description.val[i])
            /\ description.val[i] # "."
            /\ IsWord(description.val[i]) \/ description.val[i] = "-"
        /\ \A i \in 1..(Len(description.val) - 1) :
            ~ (description.val[i] = "-" /\ description.val[i + 1] = "-")
        /\ description.val[1] # "-"
        /\ description.val[Len(description.val)] # "-"

\* ------------------------------------------------------------ claims: main

\* the least counter k >= 1 for which <stem>_<k, 3 digits><ext> is free
LeastFreeCounter(dir, name) ==
    Least({k \in 1..(Cardinality(DOMAIN dir) + 1) : ~ Exists(dir, NumberedName(name, k))})

\* C1: in force mode, when the generated name stem.ext exists, the name passed
\* to the executor is stem_NNN.ext for the smallest counter k >= 1 such that
\* stem_NNN.ext does not exist (shot.png and shot_001.png existing: shot_002.png).
C1_ForceResolution ==
    (pc = "rename" /\ args.force /\ Exists(fs, gen_name)) =>
        new_name = NumberedName(gen_name, LeastFreeCounter(fs, gen_name))

\* C2: with --dry-run the set of existing paths never differs from the one
\* the run started from, whatever the pattern, prefix, suffix and force flag.
C2_DryRunFrame ==
    (pc # "idle" /\ args.dry_run) => fs = fs0

\* a forced dry run of a batch has reported two renames and ended
C2_Witness ==
    /\ pc = "done"
    /\ args.dry_run
    /\ args.force
    /\ success_count >= 2
    /\ counter > 1

\* C3: every file gets the same destination name in a dry run and in the run
\* without --dry-run started from the same directory, arguments, clock and
\* collaborator results.
C3_SameNames ==
    (pc = "done" /\ run = 2 /\ Len(dest) = Len(plan)) =>
        \A i \in 1..Len(dest) : dest[i].name = plan[i].name

FilesOf(dir) == {dir[n] : n \in DOMAIN dir}

\* the executor's step when a file exists at the destination
C4_SkipStep ==
    (pc = "rename" /\ Exists(fs, new_name)) =>
        /\ fs' = fs
        /\ success_count' = success_count
        /\ Len(dest') = Len(dest) + 1
        /\ ~ dest'[Len(dest')].ok
        /\ IF idx < Len(files_to_process)
           THEN pc' = "generate" /\ idx' = idx + 1
           ELSE pc' = "done" /\ exit_code' = Some(0)

\* C4: when a file exists at the destination the executor returns failure, the
\* source stays, the destination is untouched and the loop goes on; no file
\* that existed before the batch is overwritten or removed, and the number of
\* files in the directory is unchanged.
C4_NoOverwrite ==
    /\ [](pc # "idle" =>
            /\ FilesOf(fs) = FilesOf(fs0)
            /\ Cardinality(DOMAIN fs) = Cardinality(DOMAIN fs0))
    /\ [][C4_SkipStep]_vars

\* a batch skipped its first file on a collision and renamed a later one
C4_Witness ==
    /\ pc = "done"
    /\ ~ args.dry_run
    /\ Len(dest) >= 2
    /\ dest[1].existed
    /\ ~ dest[1].ok
    /\ dest[Len(dest)].ok
    /\ fs # fs0

\* C8: the name handed to the executor ends with the source file's extension
\* as found, case preserved, as returned by generate_new_name and after the
\* counter has been inserted.
C8_Extension ==
    /\ pc \in {"probe", "rename"} =>
        /\ EndsWith(gen_name, PathSuffix(files_to_process[idx]))
        /\ EndsWith(new_name, PathSuffix(files_to_process[idx]))
    /\ \A i \in 1..Len(dest) : EndsWith(dest[i].name, PathSuffix(dest[i].src))

\* a counter was inserted into a name with the upper-case extension .JPG
C8_Witness ==
    /\ pc = "rename"
    /\ args.force
    /\ counter > 1
    /\ PathSuffix(files_to_process[idx]) = <<".", "J", "P", "G">>
    /\ new_name # gen_name

\* C9: in force mode the probing loop ends (its counter only grows, and never
\* passes the number of files in the directory plus one), the name it ends
\* with does not exist in the directory, and the executor called next never
\* skips on an existing destination.
C9_ForceFindsFree ==
    pc # "idle" =>
        /\ pc = "probe" => counter <= Cardinality(DOMAIN fs) + 1
        /\ (pc = "rename" /\ args.force) => ~ Exists(fs, new_name)
        /\ args.force => \A i \in 1..Len(dest) : ~ dest[i].existed

\* the loop probed two existing names and the executor then renamed the file
C9_Witness ==
    /\ pc = "done"
    /\ args.force
    /\ ~ args.dry_run
    /\ counter > 2
    /\ dest[Len(dest)].ok
    /\ ~ dest[Len(dest)].existed

====
